---- MODULE Spec2Model ----
(***************************************************************************)
(* A model of the gowiki server (wiki.go).                                 *)
(*                                                                         *)
(* Strings are sequences of byte values ("a" is <<97>>), so that the       *)
(* character ranges of the title pattern, the prefix stripping of the      *)
(* router and the ".txt" suffix of the store are computed as the code      *)
(* computes them.  The working directory is a flat map from file names to  *)
(* entries; an entry is a regular file or a directory (which can be        *)
(* neither read nor opened for writing).  Every HTTP request is served by  *)
(* its own goroutine: a connection of the model.  ioutil.WriteFile is two  *)
(* steps of the file system, open(O_WRONLY|O_CREATE|O_TRUNC) and write at  *)
(* offset 0, and steps of different connections interleave freely.         *)
(***************************************************************************)
EXTENDS Integers, Sequences, FiniteSets, TLC

VARIABLES files, conns, served, vin, vout

vars == <<files, conns, served, vin, vout>>

-----------------------------------------------------------------------------
(* Bounds *)

MaxTitleLen == 1
MaxBodyLen == 2
MaxRequests == 2
NumConns == 2
MaxCandLen == 2

-----------------------------------------------------------------------------
(* Strings *)

\* "/view/", "/edit/", "/save/", ".txt"
ViewPath == <<47, 118, 105, 101, 119, 47>>
EditPath == <<47, 101, 100, 105, 116, 47>>
SavePath == <<47, 115, 97, 118, 101, 47>>
TxtExt == <<46, 116, 120, 116>>

lenPath == Len(ViewPath)

StatusOK == 200
StatusFound == 302
StatusNotFound == 404
StatusInternalServerError == 500

\* all strings over the alphabet chars of length at most n
RECURSIVE StringsUpTo(_, _)
StringsUpTo(chars, n) ==
    IF n = 0 THEN {<<>>}
    ELSE LET shorter == StringsUpTo(chars, n - 1)
         IN  shorter \cup {Append(s, c) : s \in shorter, c \in chars}

\* the requested titles: "", "a", "aa", ..., and "B" and "a/B"
TitleChars == {97}
Titles == StringsUpTo(TitleChars, MaxTitleLen) \cup {<<66>>, <<97, 47, 66>>}

\* the form bodies: "", "x", "xx", ..., and "y"
BodyChars == {120}
Bodies == StringsUpTo(BodyChars, MaxBodyLen) \cup {<<121>>}

\* the characters of validator candidates: the bounds of the three ranges
\* and their neighbours, and newline, space, '!', '.'
CandChars == {10, 32, 33, 46, 47, 48, 57, 58, 64, 65, 90, 91, 96, 97, 122, 123}
Candidates == StringsUpTo(CandChars, MaxCandLen)

HasPrefix(s, p) == Len(s) >= Len(p) /\ SubSeq(s, 1, Len(p)) = p

-----------------------------------------------------------------------------
(* Title validator: regexp.MustCompile("^[a-zA-Z0-9]+$") *)

\* the character class [a-zA-Z0-9]
InClass(c) ==
    \/ c >= 97 /\ c <= 122
    \/ c >= 65 /\ c <= 90
    \/ c >= 48 /\ c <= 57

\* the rest of the pattern from position k on, at least one character of the
\* class having been consumed: more characters of the class, then end of text
RECURSIVE MatchRest(_, _)
MatchRest(s, k) ==
    IF k > Len(s) THEN TRUE
    ELSE IF InClass(s[k]) THEN MatchRest(s, k + 1)
    ELSE FALSE

\* the pattern without its closing $: "^[a-zA-Z0-9]+"
MatchStringNoEnd(s) ==
    /\ Len(s) >= 1
    /\ InClass(s[1])

\* titleValidator.MatchString: ^ anchors at position 1, + needs one character
MatchString(s) ==
    /\ Len(s) >= 1
    /\ InClass(s[1])
    /\ MatchRest(s, 2)

-----------------------------------------------------------------------------
(* The working directory *)

RegularFile(data) == [kind |-> "file", data |-> data]
Directory == [kind |-> "dir", data |-> <<>>]

HasSeparator(name) == \E k \in 1..Len(name) : name[k] = 47

\* flags that leave the old content in place
OpenFlagsNoTrunc == {"O_WRONLY", "O_CREATE"}

\* flags that add to the old content
OpenFlagsAppend == {"O_WRONLY", "O_CREATE", "O_APPEND"}

\* the flags ioutil.WriteFile opens the file with
OpenFlags == {"O_WRONLY", "O_CREATE", "O_TRUNC"}

\* open for writing fails on a directory, and on a path through a
\* directory that does not exist (the working directory is flat)
OpenFileErr(fs, name) ==
    \/ HasSeparator(name)
    \/ name \in DOMAIN fs /\ fs[name].kind = "dir"
    \/ name \notin DOMAIN fs /\ "O_CREATE" \notin OpenFlags

\* os.OpenFile(name, flags, 0600) when it succeeds: the file is created if
\* absent and cut to length zero if present
OpenFile(fs, name) ==
    [n \in DOMAIN fs \cup {name} |->
        IF n = name
        THEN IF n \in DOMAIN fs /\ "O_TRUNC" \notin OpenFlags
             THEN fs[n]
             ELSE RegularFile(<<>>)
        ELSE fs[n]]

\* f.Write(data) on a descriptor just opened: the bytes go to offset 0 (to
\* the end of the file under O_APPEND), whatever lies beyond them stays
Write(fs, name, data) ==
    [fs EXCEPT ![name].data =
        IF "O_APPEND" \in OpenFlags
        THEN @ \o data
        ELSE data \o SubSeq(@, Len(data) + 1, Len(@))]

\* ioutil.WriteFile run without interruption
WriteFile(fs, name, data) ==
    IF OpenFileErr(fs, name)
    THEN [err |-> TRUE, files |-> fs]
    ELSE [err |-> FALSE, files |-> Write(OpenFile(fs, name), name, data)]

\* ioutil.ReadFile
ReadFile(fs, name) ==
    IF name \in DOMAIN fs /\ fs[name].kind = "file"
    THEN [err |-> FALSE, data |-> fs[name].data]
    ELSE [err |-> TRUE, data |-> <<>>]

-----------------------------------------------------------------------------
(* Page store *)

Page(title, body) == [Title |-> title, Body |-> body]

FileName(title) == title \o TxtExt

\* (p *Page) save, run without interruption
save(fs, p) == WriteFile(fs, FileName(p.Title), p.Body)

loadPage(fs, title) ==
    LET r == ReadFile(fs, FileName(title))
    IN  IF r.err
        THEN [err |-> TRUE, page |-> Page(<<>>, <<>>)]
        ELSE [err |-> FALSE, page |-> Page(title, r.data)]

-----------------------------------------------------------------------------
(* Requests *)

Conns == 1..NumConns

\* main: the three registered patterns and their handlers
Routes == { [pattern |-> ViewPath, fn |-> "view"],
            [pattern |-> EditPath, fn |-> "edit"],
            [pattern |-> SavePath, fn |-> "save"] }

\* the handler the server's mux picks for a path
Mux(path) == (CHOOSE r \in Routes : HasPrefix(path, r.pattern)).fn

NoResponse == [status |-> 0, location |-> <<>>, error |-> "",
               tmpl |-> "", page |-> Page(<<>>, <<>>)]

\* a connection: pc is the position of its goroutine ("idle", "write" between
\* the open and the write of a save, "done"), fn the handler wrapped by
\* makeHandler, path the request's path, form the value of its form field
\* "body", title the extracted title, called whether fn was invoked, io the
\* names of the files it has accessed, resp the response
IdleConn == [pc |-> "idle", fn |-> "", path |-> <<>>, form |-> <<>>,
             title |-> <<>>, called |-> FALSE, io |-> {}, resp |-> NoResponse]

\* the server gives a new request the first connection that has served
\* none yet and, when there is none, the first one that is done
Free(i) ==
    LET first(pc) == /\ conns[i].pc = pc
                     /\ \A j \in Conns : j < i => conns[j].pc /= pc
    IN  \/ first("idle")
        \/ first("done") /\ \A j \in Conns : conns[j].pc /= "idle"

\* http.Redirect(w, r, url, http.StatusFound)
Redirect(url) == [NoResponse EXCEPT !.status = StatusFound, !.location = url]

\* http.Error(w, msg, http.StatusInternalServerError)
Error(msg) == [NoResponse EXCEPT !.status = StatusInternalServerError, !.error = msg]

\* http.NotFound(w, r)
NotFound == [NoResponse EXCEPT !.status = StatusNotFound]

\* renderTemplate(w, tmpl, p); ok is whether ExecuteTemplate succeeded
renderTemplate(tmpl, p, ok) ==
    [NoResponse EXCEPT !.tmpl = tmpl, !.page = p,
                       !.status = IF ok THEN StatusOK ELSE StatusInternalServerError,
                       !.error = IF ok THEN "" ELSE "template"]

\* the text of the error of a failed open
OpenErrText(fs, name) ==
    IF name \in DOMAIN fs /\ fs[name].kind = "dir" THEN "is a directory"
    ELSE "no such file or directory"

\* The handlers map the connection c that runs them (its title set by
\* makeHandler) and the directory fs to the connection and the directory
\* they leave.

\* a view that takes a page with an empty body for a missing one
viewHandlerEmptyIsMissing(c, fs, ok) ==
    LET r == loadPage(fs, c.title)
    IN  [conn |-> [c EXCEPT
                     !.pc = "done",
                     !.io = @ \cup {FileName(c.title)},
                     !.resp = IF r.err \/ r.page.Body = <<>>
                              THEN Redirect(EditPath \o c.title)
                              ELSE renderTemplate("view", r.page, ok)],
         files |-> fs]

viewHandler(c, fs, ok) ==
    LET r == loadPage(fs, c.title)
    IN  [conn |-> [c EXCEPT
                     !.pc = "done",
                     !.io = @ \cup {FileName(c.title)},
                     !.resp = IF r.err
                              THEN Redirect(EditPath \o c.title)
                              ELSE renderTemplate("view", r.page, ok)],
         files |-> fs]

\* an edit whose blank page has no title: p = &Page{}
editHandlerNoTitle(c, fs, ok) ==
    LET r == loadPage(fs, c.title)
        p == IF r.err THEN Page(<<>>, <<>>) ELSE r.page
    IN  [conn |-> [c EXCEPT
                     !.pc = "done",
                     !.io = @ \cup {FileName(c.title)},
                     !.resp = renderTemplate("edit", p, ok)],
         files |-> fs]

\* an edit that saves the blank page it makes up
editHandlerCreates(c, fs, ok) ==
    LET r == loadPage(fs, c.title)
        p == IF r.err THEN Page(c.title, <<>>) ELSE r.page
    IN  [conn |-> [c EXCEPT
                     !.pc = "done",
                     !.io = @ \cup {FileName(c.title)},
                     !.resp = renderTemplate("edit", p, ok)],
         files |-> IF r.err THEN save(fs, p).files ELSE fs]

editHandler(c, fs, ok) ==
    LET r == loadPage(fs, c.title)
        p == IF r.err THEN Page(c.title, <<>>) ELSE r.page
    IN  [conn |-> [c EXCEPT
                     !.pc = "done",
                     !.io = @ \cup {FileName(c.title)},
                     !.resp = renderTemplate("edit", p, ok)],
         files |-> fs]

\* saveHandler up to the open of ioutil.WriteFile inside p.save(); body is
\* what r.FormValue("body") returns
saveHandlerOpen(c, fs, body) ==
    LET p == Page(c.title, body)
        name == FileName(p.Title)
    IN  IF OpenFileErr(fs, name)
        THEN [conn |-> [c EXCEPT !.pc = "done", !.form = body,
                                 !.io = @ \cup {name},
                                 !.resp = Error(OpenErrText(fs, name))],
              files |-> fs]
        ELSE [conn |-> [c EXCEPT !.pc = "write", !.form = body,
                                 !.io = @ \cup {name}],
              files |-> OpenFile(fs, name)]

\* fn(w, r, title)
Call(c, fs, body, ok) ==
    CASE c.fn = "view" -> viewHandler(c, fs, ok)
      [] c.fn = "edit" -> editHandler(c, fs, ok)
      [] c.fn = "save" -> saveHandlerOpen(c, fs, body)

\* the closure without the return after http.NotFound
makeHandlerNoReturn(i, path, body, ok) ==
    /\ served < MaxRequests
    /\ Free(i)
    /\ LET title == SubSeq(path, lenPath + 1, Len(path))
           c == [IdleConn EXCEPT !.fn = Mux(path), !.path = path, !.title = title]
           r == Call([c EXCEPT !.called = TRUE], files, body, ok)
       IN  /\ conns' = [conns EXCEPT ![i] = r.conn]
           /\ files' = r.files
    /\ served' = served + 1
    /\ UNCHANGED <<vin, vout>>

\* the closure without the validation
makeHandlerUnchecked(i, path, body, ok) ==
    /\ served < MaxRequests
    /\ Free(i)
    /\ LET title == SubSeq(path, lenPath + 1, Len(path))
           c == [IdleConn EXCEPT !.fn = Mux(path), !.path = path, !.title = title]
           r == Call([c EXCEPT !.called = TRUE], files, body, ok)
       IN  /\ conns' = [conns EXCEPT ![i] = r.conn]
           /\ files' = r.files
    /\ served' = served + 1
    /\ UNCHANGED <<vin, vout>>

\* a request for path arrives on connection i and the closure returned by
\* makeHandler(fn) serves it, for a save up to the open of the file
makeHandler(i, path, body, ok) ==
    /\ served < MaxRequests
    /\ Free(i)
    /\ LET title == SubSeq(path, lenPath + 1, Len(path))
           c == [IdleConn EXCEPT !.fn = Mux(path), !.path = path, !.title = title]
       IN  IF ~MatchString(title)
           THEN /\ conns' = [conns EXCEPT ![i] = [c EXCEPT !.pc = "done",
                                                           !.resp = NotFound]]
                /\ UNCHANGED files
           ELSE LET r == Call([c EXCEPT !.called = TRUE], files, body, ok)
                IN  /\ conns' = [conns EXCEPT ![i] = r.conn]
                    /\ files' = r.files
    /\ served' = served + 1
    /\ UNCHANGED <<vin, vout>>

\* saveHandler from the write of ioutil.WriteFile to the redirect
saveHandlerWrite(i) ==
    /\ conns[i].pc = "write"
    /\ LET p == Page(conns[i].title, conns[i].form)
       IN  /\ files' = Write(files, FileName(p.Title), p.Body)
           /\ conns' = [conns EXCEPT ![i].pc = "done",
                                     ![i].resp = Redirect(ViewPath \o p.Title)]
    /\ UNCHANGED <<served, vin, vout>>

-----------------------------------------------------------------------------
(* The server *)

ValidTitles == {t \in Titles : MatchString(t)}

\* the working directory at startup: empty, or one page file, or one
\* directory that has the name of a page file
InitFiles ==
    {<<>>}
    \cup {[n \in {FileName(t)} |-> RegularFile(b)] : t \in ValidTitles, b \in Bodies}
    \cup {[n \in {FileName(t)} |-> Directory] : t \in ValidTitles}

Init ==
    /\ files \in InitFiles
    /\ conns = [i \in Conns |-> IdleConn]
    /\ served = 0
    /\ vin = <<>>
    /\ vout = "unset"

\* GET /view/t, GET /edit/t, POST /save/t with the form field body, and
\* the second half of a save
Next ==
    \/ \E i \in Conns, t \in Titles, ok \in BOOLEAN :
          makeHandler(i, ViewPath \o t, <<>>, ok)
    \/ \E i \in Conns, t \in Titles, ok \in BOOLEAN :
          makeHandler(i, EditPath \o t, <<>>, ok)
    \/ \E i \in Conns, t \in Titles, b \in Bodies :
          makeHandler(i, SavePath \o t, b, TRUE)
    \/ \E i \in Conns : saveHandlerWrite(i)

Spec == Init /\ [][Next]_vars

-----------------------------------------------------------------------------
(* The validator on its own: a candidate is drawn and matched *)

InitV ==
    /\ files = <<>>
    /\ conns = [i \in Conns |-> IdleConn]
    /\ served = 0
    /\ vin \in Candidates
    /\ vout = "unset"

Validate ==
    /\ vout = "unset"
    /\ vout' = IF MatchString(vin) THEN "accept" ELSE "reject"
    /\ UNCHANGED <<files, conns, served, vin>>

NextV == Validate

SpecV == InitV /\ [][NextV]_vars

-----------------------------------------------------------------------------
(* Properties *)

\* the characters 0-9, A-Z, a-z
Alnum == (48..57) \cup (65..90) \cup (97..122)

AllAlnum(s) == \A k \in 1..Len(s) : s[k] \in Alnum

\* what remains of a path after its first six characters
Stripped(path) == SubSeq(path, 7, Len(path))

\* the name t.txt
Txt(t) == t \o <<46, 116, 120, 116>>

\* name is a regular file of the directory fs
Present(fs, name) == name \in DOMAIN fs /\ fs[name].kind = "file"

\* this step is the arrival of a request, which connection i takes
Arrived(i) == served' = served + 1 /\ Free(i)

\* connection i has completed a request to route fn
Did(i, fn) == conns[i].pc = "done" /\ conns[i].fn = fn

\* C1: the validator accepts a string iff it is non-empty and all of its
\* characters are in [a-zA-Z0-9]; the empty string and every string with a
\* character outside the class are rejected.
C1_ValidatorAcceptsIffAlnum ==
    vout /= "unset" =>
        /\ vout = "accept" <=> (vin /= <<>> /\ AllAlnum(vin))
        /\ vout = "reject" <=> (vin = <<>> \/ ~AllAlnum(vin))

\* a title followed by a newline has been rejected
C1_Witness ==
    /\ vout = "reject"
    /\ Len(vin) = 2
    /\ vin[1] \in Alnum
    /\ vin[2] = 10

\* C2: on each route, a request whose stripped title the validator rejects is
\* answered 404, its handler is not invoked, and no file is read, created or
\* modified.
C2_RejectedTitleNotFound ==
    [][\A i \in Conns :
          /\ (Arrived(i) /\ ~MatchString(Stripped(conns'[i].path)))
             => /\ conns'[i].pc = "done"
                /\ conns'[i].resp = [status |-> 404, location |-> <<>>, error |-> "",
                                     tmpl |-> "", page |-> Page(<<>>, <<>>)]
                /\ ~conns'[i].called
                /\ conns'[i].io = {}
                /\ files' = files
          /\ (conns'[i].pc /= "idle" /\ ~MatchString(Stripped(conns'[i].path)))
             => /\ conns'[i].pc = "done"
                /\ ~conns'[i].called
                /\ conns'[i].io = {}
      ]_vars

\* the empty title and a title with a '/' have both been answered 404
C2_Witness ==
    \E i, j \in Conns :
        /\ conns[i].pc = "done" /\ conns[j].pc = "done"
        /\ conns[i].path \in {ViewPath, EditPath, SavePath}
        /\ conns[i].resp.status = 404
        /\ \E k \in 7..Len(conns[j].path) : conns[j].path[k] = 47
        /\ conns[j].resp.status = 404

\* connection i holds the only save request for its title among all the
\* requests served so far, and the request has succeeded
LoneSave(i) ==
    /\ served <= NumConns
    /\ Did(i, "save")
    /\ conns[i].resp.status = 302
    /\ \A j \in Conns \ {i} :
          ~(conns[j].fn = "save" /\ conns[j].title = conns[i].title)

\* C3: from every reachable directory, for every valid title T and body B
\* (the empty one too), a successful save of (T, B) followed by load(T)
\* returns the page with title T and body B; and once a request has saved
\* (T, B) and no other request has written T, load(T) returns that page.
C3_SaveLoadRoundTrip ==
    /\ \A t \in ValidTitles, b \in Bodies :
          LET s == save(files, Page(t, b))
          IN  ~s.err => loadPage(s.files, t) = [err |-> FALSE, page |-> Page(t, b)]
    /\ \A i \in Conns :
          LoneSave(i) =>
             loadPage(files, Stripped(conns[i].path))
                = [err |-> FALSE,
                   page |-> Page(Stripped(conns[i].path), conns[i].form)]

\* a request saved a two-byte body and a later view rendered that body
C3_Witness ==
    \E i, j \in Conns :
        /\ Did(i, "save") /\ conns[i].resp.status = 302
        /\ Len(conns[i].form) = 2
        /\ Did(j, "view") /\ conns[j].title = conns[i].title
        /\ conns[j].resp.status = 200
        /\ conns[j].resp.page = Page(conns[i].title, conns[i].form)

\* C4: from every reachable directory, for every valid title T and body B,
\* saving (T, B) twice in sequence leaves the whole directory as saving it
\* once does.
C4_SaveIdempotent ==
    \A t \in ValidTitles, b \in Bodies :
        LET once == save(files, Page(t, b))
            twice == save(once.files, Page(t, b))
        IN  /\ twice.files = once.files
            /\ twice.err = once.err

\* two requests have saved the same non-empty body under the same title
C4_Witness ==
    \E i, j \in Conns :
        /\ i /= j
        /\ Did(i, "save") /\ Did(j, "save")
        /\ conns[i].resp.status = 302 /\ conns[j].resp.status = 302
        /\ conns[i].title = conns[j].title
        /\ conns[i].form = conns[j].form
        /\ conns[i].form /= <<>>
        /\ files[Txt(conns[i].title)] = RegularFile(conns[i].form)

\* C5: the view handler answers 302 to "/edit/" + T iff T.txt is not a
\* readable file when it loads; otherwise it renders "view" with the page
\* (T, content of T.txt), also when the content is empty.
C5_ViewRedirectsIffLoadFails ==
    [][\A i \in Conns :
          (Arrived(i) /\ conns'[i].fn = "view" /\ conns'[i].called) =>
             LET T == Stripped(conns'[i].path)
                 r == conns'[i].resp
             IN  /\ conns'[i].pc = "done"
                 /\ IF Present(files, Txt(T))
                    THEN /\ r.tmpl = "view"
                         /\ r.page = Page(T, files[Txt(T)].data)
                         /\ r.status /= 302
                         /\ r.location = <<>>
                    ELSE /\ r.status = 302
                         /\ r.location = <<47, 101, 100, 105, 116, 47>> \o T
                         /\ r.tmpl = ""
      ]_vars

\* a page with an empty body has been rendered by view
C5_Witness ==
    \E i \in Conns :
        /\ Did(i, "view")
        /\ conns[i].resp.tmpl = "view"
        /\ conns[i].resp.status = 200
        /\ conns[i].resp.page = Page(conns[i].title, <<>>)
        /\ conns[i].title /= <<>>

\* C6: the edit handler always renders "edit", never redirects and never
\* answers not-found: with the page (T, content of T.txt) if T.txt is a
\* readable file when it loads, with the page (T, empty body) otherwise.
C6_EditAlwaysRenders ==
    [][\A i \in Conns :
          (Arrived(i) /\ conns'[i].fn = "edit" /\ conns'[i].called) =>
             LET T == Stripped(conns'[i].path)
                 r == conns'[i].resp
             IN  /\ conns'[i].pc = "done"
                 /\ r.tmpl = "edit"
                 /\ r.status \notin {302, 404}
                 /\ r.location = <<>>
                 /\ r.page = IF Present(files, Txt(T))
                             THEN Page(T, files[Txt(T)].data)
                             ELSE Page(T, <<>>)
      ]_vars

\* a title without a file has been given a blank edit form
C6_Witness ==
    \E i \in Conns :
        /\ Did(i, "edit")
        /\ Txt(conns[i].title) \notin DOMAIN files
        /\ conns[i].resp.status = 200
        /\ conns[i].resp.tmpl = "edit"
        /\ conns[i].resp.page = Page(conns[i].title, <<>>)
        /\ conns[i].title /= <<>>

\* C7: a save request ends in exactly one of two ways: the write succeeded,
\* T.txt holds exactly B and the answer is 302 to "/view/" + T; or the write
\* failed and the answer is 500 with the error text and no redirect.
C7_SavePersistsThenRedirects ==
    [][\A i \in Conns :
          (conns'[i].fn = "save" /\ conns'[i].called /\ conns'[i].pc = "done"
             /\ (Arrived(i) \/ conns[i].pc = "write")) =>
             LET T == conns'[i].title
                 B == conns'[i].form
                 r == conns'[i].resp
             IN  \/ /\ conns[i].pc = "write"
                    /\ r.status = 302
                    /\ r.location = <<47, 118, 105, 101, 119, 47>> \o T
                    /\ r.error = ""
                    /\ Txt(T) \in DOMAIN files'
                    /\ files'[Txt(T)] = RegularFile(B)
                 \/ /\ Arrived(i)
                    /\ r.status = 500
                    /\ r.error /= ""
                    /\ r.location = <<>>
                    /\ files' = files
      ]_vars

\* C8: when two save requests for one title with bodies B1 and B2, the only
\* ones for that title, have both completed successfully, T.txt holds exactly
\* B1 or exactly B2.
C8_LastWriterWins ==
    \A i, j \in Conns :
        ( /\ i /= j
          /\ served <= NumConns
          /\ Did(i, "save") /\ Did(j, "save")
          /\ conns[i].resp.status = 302 /\ conns[j].resp.status = 302
          /\ conns[i].title = conns[j].title
          /\ \A k \in Conns \ {i, j} :
                ~(conns[k].fn = "save" /\ conns[k].title = conns[i].title) )
        => /\ Txt(conns[i].title) \in DOMAIN files
           /\ files[Txt(conns[i].title)].data \in {conns[i].form, conns[j].form}

\* C9: every file a request reads or writes, and every file of the
\* directory, is named t.txt for a non-empty alphanumeric t, so its name has
\* no '/' and ends in ".txt"; requests for different titles access
\* different files.
WellNamed(name) ==
    /\ Len(name) > 4
    /\ SubSeq(name, Len(name) - 3, Len(name)) = <<46, 116, 120, 116>>
    /\ AllAlnum(SubSeq(name, 1, Len(name) - 4))
    /\ \A k \in 1..Len(name) : name[k] /= 47

C9_OnlyTitleFiles ==
    /\ \A i \in Conns : \A n \in conns[i].io :
          WellNamed(n) /\ n = Txt(Stripped(conns[i].path))
    /\ \A n \in DOMAIN files : WellNamed(n)
    /\ \A i, j \in Conns :
          Stripped(conns[i].path) /= Stripped(conns[j].path)
             => conns[i].io \cap conns[j].io = {}

\* two requests for different titles have accessed two different files
C9_Witness ==
    \E i, j \in Conns :
        /\ conns[i].io /= {} /\ conns[j].io /= {}
        /\ conns[i].title /= conns[j].title
        /\ Did(i, "save") /\ Present(files, Txt(conns[i].title))

\* C10: a step changes the directory only if it is a step of a save request
\* and then changes nothing but the file of that request's title; steps of
\* view and edit requests change no file and create none.
Changed(n) ==
    \/ n \in DOMAIN files /\ n \notin DOMAIN files'
    \/ n \notin DOMAIN files /\ n \in DOMAIN files'
    \/ n \in DOMAIN files /\ n \in DOMAIN files' /\ files[n] /= files'[n]

C10_OnlySaveWritesOwnFile ==
    [][/\ \A n \in DOMAIN files \cup DOMAIN files' :
             Changed(n) =>
                \E i \in Conns :
                    /\ conns'[i].fn = "save"
                    /\ conns'[i].called
                    /\ Arrived(i) \/ (conns[i].pc = "write" /\ conns'[i].pc = "done")
                    /\ n = Txt(Stripped(conns'[i].path))
       /\ \A i \in Conns :
             (Arrived(i) /\ conns'[i].fn \in {"view", "edit"}) => files' = files
      ]_vars

\* a title has been edited and viewed and still has no file: the edit
\* showed a blank page and the view redirected to the edit form
C10_Witness ==
    \E i, j \in Conns :
        /\ Did(i, "edit") /\ Did(j, "view")
        /\ conns[i].title = conns[j].title
        /\ conns[i].called /\ conns[j].called
        /\ Txt(conns[i].title) \notin DOMAIN files
        /\ conns[i].resp.page = Page(conns[i].title, <<>>)
        /\ conns[j].resp.status = 302

====
